---- MODULE Spec2Model ----
(***************************************************************************)
(* Model of inkycal/modules/inky_image.py: the palette mapping             *)
(* image_to_palette (palette selection, padding to 256 colours,            *)
(* quantization, separation into a black and a colour band) and the        *)
(* chroma-key merge Inkyimage.merge, the methods of the Inkyimage holder    *)
(* and the pipeline generate_image of inkycal/modules/inkycal_image.py.    *)
(*                                                                         *)
(* A behaviour is one call: Init draws the call (op) and its arguments,    *)
(* the actions are the statements of the called function in program order. *)
(* Rasters are records [mode, size, px]; px maps a position <<x, y>>       *)
(* (1-based) to a pixel: a triple in mode "RGB", a 4-tuple in mode "RGBA", *)
(* 0 or 255 in mode "1".  numpy buffers are records [shape, data] with     *)
(* shape <<rows, columns>> and data[y][x] the pixel.                       *)
(***************************************************************************)
EXTENDS Integers, Sequences, FiniteSets

VARIABLES
    op,            \* the function being executed
    pc,            \* position in the called function
    image,         \* image_to_palette: argument image
    palette,       \* image_to_palette: argument palette (the token)
    dither,        \* image_to_palette: argument dither
    pal,           \* local pal: None or a flat list of intensities
    palette_im,    \* the palette attached to the dummy "P" image
    quantized_im,  \* local quantized_im (after convert("RGB"))
    rgb,           \* local rgb: the non-black-white colour of pal
    im_black,      \* local im_black
    im_colour,     \* local im_colour
    image1,        \* merge: the object passed as image1 (pasted into in place)
    image2,        \* merge: local image2
    base,          \* merge: the raster image1 held when the call was made
    overlay,       \* merge: the object passed as image2 (the name image2 is rebound at line 194)
    holder,        \* Inkyimage: self.image of the holder
    loaded,        \* generate_image: the raster im.load() opened
    config,        \* generate_image: autoflip, orientation, im_width, im_height
    raised,        \* the exception the call raised, "none" if none
    ret            \* the value the call returned

vars == <<op, pc, holder, loaded, config, base, overlay, image, palette, dither, pal, palette_im, quantized_im, rgb,
          im_black, im_colour, image1, image2, raised, ret>>

---------------------------------------------------------------------------
(* Bounds of the model *)

\* a raster holds at most MaxPixels pixels (width * height)
MaxPixels == 2

---------------------------------------------------------------------------
(* Values *)

White == <<255, 255, 255>>
Black == <<0, 0, 0>>
Red == <<255, 0, 0>>
Yellow == <<255, 255, 0>>

\* Python's None for an image-valued name
NoImage == [mode |-> "None"]

\* Python's None / a list, for the name pal
NonePal == [none |-> TRUE, list |-> <<>>]
ListPal(s) == [none |-> FALSE, list |-> s]

\* the number of colours a palette must have for putpalette / quantize
PaletteSize == 256

\* range(0, 256, 16): step of the gray levels
GrayStep == 16

Pos(w, h) == (1..w) \X (1..h)

Width(im) == im.size[1]
Height(im) == im.size[2]

ZeroArea(im) == Width(im) = 0 \/ Height(im) = 0

\* the sizes a raster of the model may have: at most MaxPixels pixels,
\* a zero width or height included
Sizes == {s \in (0..MaxPixels) \X (0..MaxPixels) : s[1] * s[2] <= MaxPixels}

\* RGB pixels the input rasters are drawn from: the anchors of the palettes,
\* a near-yellow, a gray of the 16-level ramp and an off-ramp gray
SamplePixels == {White, Black, Red, <<250, 250, 10>>, <<16, 16, 16>>, <<100, 100, 100>>}

RGBImages == UNION {{[mode |-> "RGB", size |-> s, px |-> f] :
                        f \in [Pos(s[1], s[2]) -> SamplePixels]} : s \in Sizes}

\* the tokens a call is made with: the four supported ones and one that is not
Tokens == {"bwr", "bwy", "bw", "16gray", "cmyk"}

\* RGBA pixels of the overlays of merge: white opaque, black opaque, red with
\* alpha 0, a near-white
OverlayPixels == {<<255, 255, 255, 255>>, <<0, 0, 0, 255>>,
                  <<255, 0, 0, 0>>, <<255, 255, 254, 255>>}

\* RGBA pixels of the base rasters of merge
BasePixels == {<<0, 0, 0, 255>>, <<0, 0, 255, 128>>}

MergeSizes == {s \in Sizes : s[1] >= 1 /\ s[2] >= 1}

RGBAImages(pixels) == UNION {{[mode |-> "RGBA", size |-> s, px |-> f] :
                                 f \in [Pos(s[1], s[2]) -> pixels]} : s \in MergeSizes}

NoReturn == [returned |-> FALSE]

\* no module configuration: the behaviour is not a generate_image call
NoConfig == [set |-> FALSE]

---------------------------------------------------------------------------
(* Python lists *)

\* s * n
Repeat(s, n) == [i \in 1..(Len(s) * n) |-> s[((i - 1) % Len(s)) + 1]]

\* mutant: the list is left in the order it was built
SortedList_Unsorted(s) == s

\* list.sort() of a list of integers
SortedList(s) ==
    [i \in 1..Len(s) |->
        CHOOSE v \in {s[j] : j \in 1..Len(s)} :
            /\ Cardinality({j \in 1..Len(s) : s[j] < v}) < i
            /\ i <= Cardinality({j \in 1..Len(s) : s[j] <= v})]

\* [x for x in range(0, 256, 16)]
GrayLevels == [i \in 1..((PaletteSize + GrayStep - 1) \div GrayStep) |-> (i - 1) * GrayStep]

Min(a, b) == IF a <= b THEN a ELSE b

\* [l[x : x + 3] for x in range(0, len(l), 3)]
Triples(l) == [i \in 1..((Len(l) + 2) \div 3) |-> SubSeq(l, 3 * (i - 1) + 1, Min(3 * i, Len(l)))]

---------------------------------------------------------------------------
(* image_to_palette: palette selection and padding *)

Supported(token) == token \in {"bwr", "bwy", "bw", "16gray"}

\* the if / elif chain on the token; only called for a supported token
SelectPal(token) ==
    CASE token = "bwr" -> ListPal(<<255, 255, 255, 0, 0, 0, 255, 0, 0>>)
      [] token = "bwy" -> ListPal(<<255, 255, 255, 0, 0, 0, 255, 255, 0>>)
      [] token = "bw" -> NonePal
      [] token = "16gray" -> ListPal(SortedList(Repeat(GrayLevels, 3)))

\* `if pal:` is false for None and for an empty list
Truthy(p) == ~p.none /\ Len(p.list) > 0

\* mutant: the palette is not padded
PadPal_NoPadding(l) == l

\* mutant: the palette is padded with a mid gray instead of black
PadPal_Gray(l) ==
    LET colours == Len(l) \div 3
    IN IF PaletteSize % colours # 0
       THEN l \o Repeat(<<128, 128, 128>>, PaletteSize % colours)
       ELSE l

\* pal += (256 % colours) * [0, 0, 0] when 256 % colours != 0
PadPal(l) ==
    LET colours == Len(l) \div 3
    IN IF PaletteSize % colours # 0
       THEN l \o Repeat(<<0, 0, 0>>, PaletteSize % colours)
       ELSE l

\* pal * (256 // colours), the list handed to putpalette
PaletteTable(l) ==
    LET colours == Len(l) \div 3
    IN Repeat(l, PaletteSize \div colours)

\* the colours of a palette table
TableColours(t) == {SubSeq(t, 3 * i + 1, 3 * i + 3) : i \in 0..((Len(t) \div 3) - 1)}

---------------------------------------------------------------------------
(* image_to_palette: the library's quantizer and bilevel conversion *)

Sq(x) == x * x

Dist(a, b) == Sq(a[1] - b[1]) + Sq(a[2] - b[2]) + Sq(a[3] - b[3])

\* the colours of cols nearest to a pixel (several on a tie)
Nearest(p, cols) == {c \in cols : \A d \in cols : Dist(p, c) <= Dist(p, d)}

\* The colours quantize may give the pixel at position q.  Without dithering:
\* a nearest palette colour.  With Floyd-Steinberg dithering the first pixel
\* carries no diffused error and maps to a nearest colour; a later pixel
\* carries the error of its predecessors and maps to some palette colour.
QuantizeChoices(im, q, cols, d) ==
    IF d /\ q # <<1, 1>> THEN cols ELSE Nearest(im.px[q], cols)

\* the rasters of pixels over the positions Q that give each position q one
\* of the colours quantize may give it
RECURSIVE QuantizedPixels(_, _, _, _)
QuantizedPixels(Q, im, cols, d) ==
    IF Q = {} THEN {[q \in {} |-> Black]}
    ELSE LET q0 == CHOOSE q \in Q : TRUE
         IN {[q \in Q |-> IF q = q0 THEN c ELSE f[q]] :
                c \in QuantizeChoices(im, q0, cols, d),
                f \in QuantizedPixels(Q \ {q0}, im, cols, d)}

\* image.quantize(palette=palette_im, dither=dither).convert("RGB"):
\* the rasters the two calls may give
Quantized(im, t, d) ==
    {[mode |-> "RGB", size |-> im.size, px |-> f] :
        f \in QuantizedPixels(Pos(Width(im), Height(im)), im, TableColours(t), d)}

\* ITU-R 601-2 luma, scaled by 1000, as the library's conversion to "1" computes it
Luma(p) == p[1] * 299 + p[2] * 587 + p[3] * 114

\* the values convert("1") may give the pixel at position q: the threshold of the
\* luma without dithering and for the first pixel, either value for a later
\* pixel under dithering
BilevelChoices(im, q, d) ==
    IF d /\ q # <<1, 1>> THEN {0, 255}
    ELSE {IF Luma(im.px[q]) >= 128000 THEN 255 ELSE 0}

\* image.convert("1", dither=dither)
Bilevel(im, d) ==
    {[mode |-> "1", size |-> im.size, px |-> f] :
        f \in {g \in [Pos(Width(im), Height(im)) -> {0, 255}] :
                  \A q \in Pos(Width(im), Height(im)) : g[q] \in BilevelChoices(im, q, d)}}

\* mutant: the band is filled with black
NewWhite_Black(size) == [mode |-> "1", size |-> size, px |-> [q \in Pos(size[1], size[2]) |-> 0]]

\* Image.new(mode="1", size=size, color="white")
NewWhite(size) == [mode |-> "1", size |-> size, px |-> [q \in Pos(size[1], size[2]) |-> 255]]

---------------------------------------------------------------------------
(* image_to_palette: the numpy buffers and the two bands *)

\* numpy.array(img): rows first
NumpyArray(im) ==
    [shape |-> <<Height(im), Width(im)>>,
     data |-> [y \in 1..Height(im) |-> [x \in 1..Width(im) |-> im.px[<<x, y>>]]]]

\* mutant: the rows of the buffer are taken for the width
FromArray_Transposed(a) ==
    [mode |-> "RGB", size |-> <<a.shape[1], a.shape[2]>>,
     px |-> [q \in Pos(a.shape[1], a.shape[2]) |-> a.data[q[1]][q[2]]]]

\* Image.fromarray(buffer): size is (columns, rows)
FromArray(a) ==
    [mode |-> "RGB", size |-> <<a.shape[2], a.shape[1]>>,
     px |-> [q \in Pos(a.shape[2], a.shape[1]) |-> a.data[q[2]][q[1]]]]

\* the first colour of pal that is neither black nor white, as a set: empty
\* when pal has none (the [0] then raises IndexError)
NotBlackWhite(col) == col # Black /\ col # White

AccentCandidates(l) == SelectSeq(Triples(l), NotBlackWhite)

\* mutant: the mask tests the green channel alone
BlackBuffer_GreenOnly(buf, col) ==
    [buf EXCEPT !.data = [y \in 1..buf.shape[1] |-> [x \in 1..buf.shape[2] |->
        IF buf.data[y][x][2] = col[2] THEN White ELSE buf.data[y][x]]]]

\* buffer1[numpy.logical_and(r == r_col, g == g_col)] = [255, 255, 255]
BlackBuffer(buf, col) ==
    [buf EXCEPT !.data = [y \in 1..buf.shape[1] |-> [x \in 1..buf.shape[2] |->
        IF buf.data[y][x][1] = col[1] /\ buf.data[y][x][2] = col[2]
        THEN White ELSE buf.data[y][x]]]]

\* mutant: black pixels are not turned white
BlackToWhite_Skipped(buf) == buf

\* buffer2[numpy.logical_and(r == 0, g == 0)] = [255, 255, 255]
BlackToWhite(buf) ==
    [buf EXCEPT !.data = [y \in 1..buf.shape[1] |-> [x \in 1..buf.shape[2] |->
        IF buf.data[y][x][1] = 0 /\ buf.data[y][x][2] = 0
        THEN White ELSE buf.data[y][x]]]]

\* buffer2[numpy.logical_and(g == g_col, b == 0)] = [0, 0, 0]
\* r, g, b are views of buffer2: the mask reads the buffer as the previous
\* assignment left it
AccentToBlack(buf, col) ==
    [buf EXCEPT !.data = [y \in 1..buf.shape[1] |-> [x \in 1..buf.shape[2] |->
        IF buf.data[y][x][2] = col[2] /\ buf.data[y][x][3] = 0
        THEN Black ELSE buf.data[y][x]]]]

ColourBuffer(buf, col) == AccentToBlack(BlackToWhite(buf), col)

---------------------------------------------------------------------------
(* Inkyimage.merge: clear_white and the library's paste *)

\* img.convert("RGBA"): an RGB pixel becomes opaque
ToRGBA(im) ==
    IF im.mode = "RGBA" THEN im
    ELSE [mode |-> "RGBA", size |-> im.size,
          px |-> [q \in Pos(Width(im), Height(im)) |-> im.px[q] \o <<255>>]]

\* mutant: only the red channel is compared with 255
ClearAlpha_RedOnly(p) == IF p[1] # 255 THEN 255 ELSE 0

\* x[:, :, 3] = (255 * (x[:, :, :3] != 255).any(axis=2)).astype(numpy.uint8)
ClearAlpha(p) == IF p[1] # 255 \/ p[2] # 255 \/ p[3] # 255 THEN 255 ELSE 0

\* clear_white(img)
clear_white(im) ==
    LET x == NumpyArray(ToRGBA(im))
        y == [x EXCEPT !.data = [r \in 1..x.shape[1] |-> [c \in 1..x.shape[2] |->
                 <<x.data[r][c][1], x.data[r][c][2], x.data[r][c][3], ClearAlpha(x.data[r][c])>>]]]
    IN [FromArray(y) EXCEPT !.mode = "RGBA"]

\* the library's blend of one channel under mask value a: out o, in i
Blend(a, o, i) ==
    LET tmp == a * i + (255 - a) * o + 128
    IN ((tmp \div 256) + tmp) \div 256

\* dst.paste(src, (0, 0), mask): the region of src that lies within dst is
\* blended into dst under the alpha band of mask; what lies outside is dropped
Paste(dst, src, mask) ==
    [dst EXCEPT !.px = [q \in Pos(Width(dst), Height(dst)) |->
        IF q[1] <= Width(src) /\ q[2] <= Height(src)
        THEN [k \in 1..4 |-> Blend(mask.px[q][4], dst.px[q][k], src.px[q][k])]
        ELSE dst.px[q]]]

---------------------------------------------------------------------------
(* The state machine *)

InitPalette ==
    /\ op = "image_to_palette"
    /\ image \in RGBImages
    /\ palette \in Tokens
    /\ dither \in BOOLEAN
    /\ image1 = NoImage
    /\ image2 = NoImage
    /\ base = NoImage
    /\ overlay = NoImage

InitMerge ==
    /\ op = "merge"
    /\ image1 \in RGBAImages(BasePixels)
    /\ image2 \in RGBAImages(OverlayPixels)
    /\ base = image1
    /\ overlay = image2
    /\ image = NoImage
    /\ palette = "bw"
    /\ dither = FALSE

Init ==
    /\ pc = "start"
    /\ pal = NonePal
    /\ palette_im = <<>>
    /\ quantized_im = NoImage
    /\ rgb = <<>>
    /\ im_black = NoImage
    /\ im_colour = NoImage
    /\ raised = "none"
    /\ ret = NoReturn
    /\ holder = NoImage
    /\ loaded = NoImage
    /\ config = NoConfig
    /\ (InitPalette \/ InitMerge)

\* lines 226-238: a supported token selects pal
SelectPalette ==
    /\ op = "image_to_palette" /\ pc = "start"
    /\ Supported(palette)
    /\ pal' = SelectPal(palette)
    /\ pc' = "selected"
    /\ UNCHANGED <<op, holder, loaded, config, base, overlay, image, palette, dither, palette_im, quantized_im, rgb,
                   im_black, im_colour, image1, image2, raised, ret>>

\* mutant: an unsupported token is a silent no-op that leaves pal at None
RejectPalette_Silent ==
    /\ op = "image_to_palette" /\ pc = "start"
    /\ ~Supported(palette)
    /\ pal' = NonePal
    /\ pc' = "selected"
    /\ UNCHANGED <<op, holder, loaded, config, base, overlay, image, palette, dither, palette_im, quantized_im, rgb,
                   im_black, im_colour, image1, image2, raised, ret>>

\* lines 240-242: any other token raises ValueError
RejectPalette ==
    /\ op = "image_to_palette" /\ pc = "start"
    /\ ~Supported(palette)
    /\ raised' = "ValueError"
    /\ pc' = "raised"
    /\ UNCHANGED <<op, holder, loaded, config, base, overlay, image, palette, dither, pal, palette_im, quantized_im, rgb,
                   im_black, im_colour, image1, image2, ret>>

\* lines 244-263: pal is padded in place and replicated into the palette
BuildPalette ==
    /\ op \in {"image_to_palette", "padding"} /\ pc = "selected"
    /\ Truthy(pal)
    /\ pal' = ListPal(PadPal(pal.list))
    /\ palette_im' = PaletteTable(PadPal(pal.list))
    /\ pc' = "quantize"
    /\ UNCHANGED <<op, holder, loaded, config, base, overlay, image, palette, dither, quantized_im, rgb,
                   im_black, im_colour, image1, image2, raised, ret>>

\* lines 266-267: quantize to the palette and convert back to RGB
Quantize ==
    /\ op = "image_to_palette" /\ pc = "quantize"
    /\ quantized_im' \in Quantized(image, palette_im, dither)
    /\ pc' = "accent"
    /\ UNCHANGED <<op, holder, loaded, config, base, overlay, image, palette, dither, pal, palette_im, rgb,
                   im_black, im_colour, image1, image2, raised, ret>>

\* lines 270-272: the first colour of pal that is neither black nor white
FindAccent ==
    /\ op = "image_to_palette" /\ pc = "accent"
    /\ IF Len(AccentCandidates(pal.list)) = 0
       THEN /\ raised' = "IndexError"
            /\ pc' = "raised"
            /\ UNCHANGED rgb
       ELSE /\ rgb' = AccentCandidates(pal.list)[1]
            /\ pc' = "black"
            /\ UNCHANGED raised
    /\ UNCHANGED <<op, holder, loaded, config, base, overlay, image, palette, dither, pal, palette_im, quantized_im,
                   im_black, im_colour, image1, image2, ret>>

\* lines 276-285: the black band
BlackBand ==
    /\ op = "image_to_palette" /\ pc = "black"
    /\ im_black' = FromArray(BlackBuffer(NumpyArray(quantized_im), rgb))
    /\ pc' = "colour"
    /\ UNCHANGED <<op, holder, loaded, config, base, overlay, image, palette, dither, pal, palette_im, quantized_im, rgb,
                   im_colour, image1, image2, raised, ret>>

\* line 276: numpy.array(quantized_im) reads the raster through tobytes(), which
\* library versions before the empty-raster fix refuse for a raster of zero area
NumpyRejectsEmpty ==
    /\ op = "image_to_palette" /\ pc = "black"
    /\ ZeroArea(quantized_im)
    /\ raised' = "SystemError"
    /\ pc' = "raised"
    /\ UNCHANGED <<op, holder, loaded, config, base, overlay, image, palette, dither, pal, palette_im, quantized_im, rgb,
                   im_black, im_colour, image1, image2, ret>>

\* lines 288-300: the colour band
ColourBand ==
    /\ op = "image_to_palette" /\ pc = "colour"
    /\ im_colour' = FromArray(ColourBuffer(NumpyArray(quantized_im), rgb))
    /\ pc' = "return"
    /\ UNCHANGED <<op, holder, loaded, config, base, overlay, image, palette, dither, pal, palette_im, quantized_im, rgb,
                   im_black, image1, image2, raised, ret>>

\* lines 305-307: without a palette, the bilevel conversion and a white band
BlackWhite ==
    /\ op = "image_to_palette" /\ pc = "selected"
    /\ ~Truthy(pal)
    /\ \E b \in Bilevel(image, dither) :
          /\ im_black' = b
          /\ im_colour' = NewWhite(b.size)
    /\ pc' = "return"
    /\ UNCHANGED <<op, holder, loaded, config, base, overlay, image, palette, dither, pal, palette_im, quantized_im, rgb,
                   image1, image2, raised, ret>>

\* lines 309-311: return im_black, im_colour, two rasters created by the call
ReturnBands ==
    /\ op = "image_to_palette" /\ pc = "return"
    /\ ret' = [returned |-> TRUE, shares |-> {}, black |-> im_black, colour |-> im_colour]
    /\ pc' = "done"
    /\ UNCHANGED <<op, holder, loaded, config, base, overlay, image, palette, dither, pal, palette_im, quantized_im, rgb,
                   im_black, im_colour, image1, image2, raised>>

\* line 194: image2 = clear_white(image2)
MergeClearWhite ==
    /\ op = "merge" /\ pc = "start"
    /\ image2' = clear_white(image2)
    /\ pc' = "paste"
    /\ UNCHANGED <<op, holder, loaded, config, base, overlay, image, palette, dither, pal, palette_im, quantized_im, rgb,
                   im_black, im_colour, image1, raised, ret>>

\* line 195: image1.paste(image2, (0, 0), image2)
MergePaste ==
    /\ op = "merge" /\ pc = "paste"
    /\ image1' = Paste(image1, image2, image2)
    /\ pc' = "return"
    /\ UNCHANGED <<op, holder, loaded, config, base, overlay, image, palette, dither, pal, palette_im, quantized_im, rgb,
                   im_black, im_colour, image2, raised, ret>>

\* lines 196-198: return image1, the object the caller passed
MergeReturn ==
    /\ op = "merge" /\ pc = "return"
    /\ ret' = [returned |-> TRUE, shares |-> {"image1"}, image |-> image1]
    /\ pc' = "done"
    /\ UNCHANGED <<op, holder, loaded, config, base, overlay, image, palette, dither, pal, palette_im, quantized_im, rgb,
                   im_black, im_colour, image1, image2, raised>>

Next ==
    \/ SelectPalette
    \/ RejectPalette
    \/ BuildPalette
    \/ Quantize
    \/ FindAccent
    \/ BlackBand
    \/ NumpyRejectsEmpty
    \/ ColourBand
    \/ BlackWhite
    \/ ReturnBands
    \/ MergeClearWhite
    \/ MergePaste
    \/ MergeReturn

Spec == Init /\ [][Next]_vars

---------------------------------------------------------------------------
(* Properties of image_to_palette *)

\* the colour a raster shows at position q, as an RGB triple
Rgb(im, q) ==
    IF im.mode = "1" THEN <<im.px[q], im.px[q], im.px[q]>>
    ELSE <<im.px[q][1], im.px[q][2], im.px[q][3]>>

Positions(im) == Pos(Width(im), Height(im))

PaletteCall == op = "image_to_palette"

Returned == PaletteCall /\ ret.returned

\* the accent of a 3-colour token
AccentOf(token) == IF token = "bwr" THEN Red ELSE Yellow

ThreeColour == palette \in {"bwr", "bwy"}

\* C1: for every supported token, every dither setting and every input raster,
\* both returned planes contain only pure-white and pure-black pixels.
C1_PlanesBlackWhite ==
    (Returned /\ ~ZeroArea(image)) =>
        /\ \A q \in Positions(ret.black) : Rgb(ret.black, q) \in {White, Black}
        /\ \A q \in Positions(ret.colour) : Rgb(ret.colour, q) \in {White, Black}

\* C2: for a 3-colour token the black plane is the quantized raster with every
\* accent pixel replaced by white: accent -> white, black -> black,
\* white -> white; [(255,0,0),(0,0,0)] under bwr without dithering gives
\* [white, black].
C2_BlackPlane ==
    (PaletteCall /\ ThreeColour /\ im_black # NoImage) =>
        /\ im_black.size = quantized_im.size
        /\ \A q \in Positions(quantized_im) :
              /\ quantized_im.px[q] \in {White, Black, AccentOf(palette)}
              /\ quantized_im.px[q] = AccentOf(palette) => im_black.px[q] = White
              /\ quantized_im.px[q] = Black => im_black.px[q] = Black
              /\ quantized_im.px[q] = White => im_black.px[q] = White
        /\ (/\ palette = "bwr" /\ ~dither /\ image.size = <<2, 1>>
            /\ image.px[<<1, 1>>] = Red /\ image.px[<<2, 1>>] = Black)
           => (im_black.px[<<1, 1>>] = White /\ im_black.px[<<2, 1>>] = Black)

\* C2 witness: the call of the concrete scenario has returned, with an accent
\* pixel turned white and a black pixel kept
C2_Witness ==
    /\ Returned /\ palette = "bwr" /\ ~dither /\ image.size = <<2, 1>>
    /\ image.px[<<1, 1>>] = Red /\ image.px[<<2, 1>>] = Black
    /\ quantized_im.px[<<1, 1>>] = Red /\ quantized_im.px[<<2, 1>>] = Black
    /\ ret.black.px[<<1, 1>>] = White /\ ret.black.px[<<2, 1>>] = Black

\* C3: for every token with a palette table the colour plane is the quantized
\* raster with every pure-black pixel replaced by white and every pixel that
\* matches the accent triple (rgb) on G and B replaced by black, all other
\* pixels unchanged; a black pixel ends white even when black agrees with the
\* accent on G and B.
C3_ColourPlane ==
    (PaletteCall /\ palette \in {"bwr", "bwy", "16gray"} /\ im_colour # NoImage
        /\ ~ZeroArea(image)) =>
        /\ im_colour.size = quantized_im.size
        /\ \A q \in Positions(quantized_im) :
              im_colour.px[q] =
                  IF quantized_im.px[q] = Black THEN White
                  ELSE IF quantized_im.px[q][2] = rgb[2] /\ quantized_im.px[q][3] = rgb[3]
                       THEN Black
                       ELSE quantized_im.px[q]

\* C4 as stated: for every supported token, bw included, a palette table of
\* exactly 256 triples (768 values) has been built once the planes exist.
C4_TableEveryToken ==
    (PaletteCall /\ Supported(palette) /\ ~ZeroArea(image) /\ pc \in {"return", "done"}) =>
        Len(palette_im) = 3 * PaletteSize

\* C4 amended: for bwr, bwy and 16gray the table handed to the quantizer holds
\* exactly 256 triples of intensities (768 values); under bw no table is built
\* and nothing is quantized.
C4_Table ==
    PaletteCall =>
        /\ (palette \in {"bwr", "bwy", "16gray"} /\ pc \notin {"start", "selected"}) =>
              /\ Len(palette_im) = 3 * PaletteSize
              /\ pc = "quantize" =>
                    Cardinality({i \in 0..(PaletteSize - 1) :
                        \A k \in 1..3 : palette_im[3 * i + k] \in 0..255}) = PaletteSize
        /\ palette = "bw" => (palette_im = <<>> /\ quantized_im = NoImage)

\* C4 witness: the padded bwr table has been handed to the quantizer
C4_Witness ==
    /\ PaletteCall /\ palette = "bwr" /\ quantized_im # NoImage
    /\ ~ZeroArea(image)
    /\ Len(pal.list) = 12
    /\ Len(palette_im) = 768

\* C5: a token outside {bwr, bwy, bw, 16gray} fails with ValueError before any
\* palette is built or any pixel quantized, and no plane is returned.
C5_Unsupported ==
    (PaletteCall /\ ~Supported(palette) /\ pc # "start") =>
        /\ pc = "raised" /\ raised = "ValueError"
        /\ pal = NonePal /\ palette_im = <<>>
        /\ quantized_im = NoImage
        /\ im_black = NoImage /\ im_colour = NoImage
        /\ ~ret.returned

\* C5 witness: the call with the token cmyk on a non-empty raster has raised
C5_Witness ==
    /\ PaletteCall /\ palette = "cmyk" /\ ~ZeroArea(image)
    /\ pc = "raised" /\ raised = "ValueError"

\* C6: for every supported token and every raster of width w >= 1 and height
\* h >= 1, both returned planes have exactly width w and height h.
C6_PlaneSize ==
    (Returned /\ Width(image) >= 1 /\ Height(image) >= 1) =>
        /\ ret.black.size = image.size
        /\ ret.colour.size = image.size
        /\ DOMAIN ret.black.px = Positions(image)
        /\ DOMAIN ret.colour.px = Positions(image)

\* C6 witness: planes returned for a raster one pixel wide and two high under
\* a palette token, and for a raster two wide and one high under bw
C6_Witness ==
    /\ Returned
    /\ \/ palette = "bwy" /\ image.size = <<1, 2>> /\ ret.colour.size = <<1, 2>>
       \/ palette = "16gray" /\ image.size = <<1, 2>> /\ ret.black.size = <<1, 2>>

\* the bilevel threshold of a pixel
Threshold(p) == IF Luma(p) >= 128000 THEN 255 ELSE 0

\* C7: under bw no palette table is built and quantization and accent
\* separation are skipped; the black plane is the bilevel conversion of the
\* input and the colour plane is all white with the black plane's dimensions,
\* whatever the pixels and the dither flag.
C7_BlackWhiteToken ==
    (PaletteCall /\ palette = "bw" /\ pc \in {"return", "done"}) =>
        /\ pal = NonePal /\ palette_im = <<>>
        /\ quantized_im = NoImage /\ rgb = <<>>
        /\ im_black.mode = "1" /\ im_black.size = image.size
        /\ \A q \in Positions(image) :
              /\ im_black.px[q] \in {0, 255}
              /\ (~dither \/ q = <<1, 1>>) => im_black.px[q] = Threshold(image.px[q])
        /\ im_colour.mode = "1" /\ im_colour.size = im_black.size
        /\ \A q \in Positions(im_black) : im_colour.px[q] = 255
        /\ pc = "done" => (ret.black = im_black /\ ret.colour = im_colour)

\* C7 witness: a bw call with dithering on a two-pixel raster has returned a
\* black plane with ink and an all-white colour plane
C7_Witness ==
    /\ Returned /\ palette = "bw" /\ dither /\ image.size = <<2, 1>>
    /\ image.px[<<1, 1>>] = Red /\ image.px[<<2, 1>>] = Black
    /\ ret.black.px[<<1, 1>>] = 0 /\ ret.black.px[<<2, 1>>] = 255
    /\ ret.colour.px[<<1, 1>>] = 255 /\ ret.colour.px[<<2, 1>>] = 255

\* C10: a call with a zero-area raster fails fast for every supported token:
\* nothing is quantized or converted and no plane is returned.
C10_ZeroAreaFails ==
    (PaletteCall /\ Supported(palette) /\ ZeroArea(image)) =>
        /\ quantized_im = NoImage
        /\ im_black = NoImage /\ im_colour = NoImage
        /\ ~ret.returned
        /\ pc = "raised" => raised = "DimensionError"

---------------------------------------------------------------------------
(* Properties of Inkyimage.merge *)

MergeCall == op = "merge"

Merged == MergeCall /\ ret.returned

Inside(q, im) == q[1] <= Width(im) /\ q[2] <= Height(im)

WhiteRGB(p) == p[1] = 255 /\ p[2] = 255 /\ p[3] = 255

AllPixels(im, p) == \A q \in Positions(im) : im.px[q] = p

C9_MergeDimension ==
    MergeCall =>
        IF Width(overlay) > Width(base) \/ Height(overlay) > Height(base)
        THEN /\ ~ret.returned
             /\ pc = "raised" => raised = "DimensionError"
        ELSE ret.returned => ret.image.size = base.size

---------------------------------------------------------------------------
(* Accent identification, purity, the palette tables *)

\* the colours of pal that are neither black nor white
CandidateColours(l) == {AccentCandidates(l)[i] : i \in 1..Len(AccentCandidates(l))}

\* C11: for bwr, bwy and 16gray accent identification selects the unique colour
\* of the table that is neither black nor white, and fails with an internal
\* consistency error, no plane built, when there is none or more than one.
C11_AccentUnique ==
    (PaletteCall /\ palette \in {"bwr", "bwy", "16gray"} /\ ~ZeroArea(image)
        /\ pc \in {"black", "colour", "return", "done", "raised"}) =>
        IF Cardinality(CandidateColours(pal.list)) = 1
        THEN rgb \in CandidateColours(pal.list) /\ raised = "none"
        ELSE /\ pc = "raised" /\ raised # "none"
             /\ im_black = NoImage /\ im_colour = NoImage /\ ~ret.returned

\* C12: image_to_palette and merge are pure: the source raster, the base raster
\* and the overlay raster hold the pixels they held before the call, and the
\* rasters returned are new values shared with no input.
C12_Pure ==
    /\ PaletteCall => (ret.returned => ret.shares = {})
    /\ MergeCall =>
          /\ image1 = base
          /\ ret.returned => ret.shares = {}

\* C13: under bwr every pixel of the quantized raster is white, black or red:
\* the black padding and the replication of the table add no other colour.
C13_QuantizedBwr ==
    (PaletteCall /\ palette = "bwr") =>
        /\ pc = "quantize" => TableColours(palette_im) = {White, Black, Red}
        /\ quantized_im # NoImage =>
              /\ quantized_im.mode = "RGB"
              /\ \A q \in Positions(quantized_im) : quantized_im.px[q] \in {White, Black, Red}

\* C13 witness: an off-palette gray and a red pixel have been quantized under
\* bwr without dithering
C13_Witness ==
    /\ PaletteCall /\ palette = "bwr" /\ ~dither /\ image.size = <<2, 1>>
    /\ image.px[<<1, 1>>] = <<100, 100, 100>> /\ image.px[<<2, 1>>] = Red
    /\ quantized_im # NoImage
    /\ quantized_im.px[<<1, 1>>] = Black /\ quantized_im.px[<<2, 1>>] = Red

\* the i-th RGB triple of a palette table, i from 1
Entry(t, i) == <<t[3 * i - 2], t[3 * i - 1], t[3 * i]>>

\* C14: under 16gray pal holds the 16 gray levels 0, 16, ..., 240 as triples of
\* three equal channels in ascending order, and the table of 256 entries holds
\* only such triples, every level exactly 16 times.
C14_GrayTable ==
    (PaletteCall /\ palette = "16gray" /\ pc = "quantize") =>
        /\ Len(pal.list) = 48
        /\ \A i \in 1..16 : Entry(pal.list, i) = <<16 * (i - 1), 16 * (i - 1), 16 * (i - 1)>>
        /\ Len(palette_im) = 768
        /\ \A i \in 1..256 :
              /\ Entry(palette_im, i)[1] \in {16 * k : k \in 0..15}
              /\ Entry(palette_im, i)[2] = Entry(palette_im, i)[1]
              /\ Entry(palette_im, i)[3] = Entry(palette_im, i)[1]
        /\ \A k \in 0..15 :
              Cardinality({i \in 1..256 : Entry(palette_im, i) = <<16 * k, 16 * k, 16 * k>>}) = 16

\* C14 witness: the 16gray table is attached and about to be used on a raster
C14_Witness ==
    /\ PaletteCall /\ palette = "16gray" /\ pc = "quantize" /\ ~ZeroArea(image)
    /\ Entry(palette_im, 2) = <<16, 16, 16>>
    /\ Entry(palette_im, 256) = <<240, 240, 240>>

\* C17: for bwr and bwy no position carries ink in both planes: the black
\* plane is black exactly where the quantized pixel is black, the colour plane
\* is black exactly where it is the accent, both are white exactly where it is
\* white.
C17_DisjointInk ==
    (PaletteCall /\ ThreeColour /\ pc \in {"return", "done"}) =>
        \A q \in Positions(quantized_im) :
            /\ ~(im_black.px[q] = Black /\ im_colour.px[q] = Black)
            /\ im_black.px[q] = Black <=> quantized_im.px[q] = Black
            /\ im_colour.px[q] = Black <=> quantized_im.px[q] = AccentOf(palette)
            /\ (im_black.px[q] = White /\ im_colour.px[q] = White) <=> quantized_im.px[q] = White
            /\ im_black.px[q] \in {White, Black} /\ im_colour.px[q] \in {White, Black}

\* C17 witness: a bwr call has returned for a raster with an accent pixel and a
\* black pixel, each inked in its own plane only
C17_Witness ==
    /\ Returned /\ palette = "bwr" /\ image.size = <<2, 1>>
    /\ quantized_im.px[<<1, 1>>] = Red /\ quantized_im.px[<<2, 1>>] = Black
    /\ ret.black.px[<<1, 1>>] = White /\ ret.black.px[<<2, 1>>] = Black
    /\ ret.colour.px[<<1, 1>>] = Black /\ ret.colour.px[<<2, 1>>] = White

---------------------------------------------------------------------------
(* The padding rule on its own: lines 244-263 applied to a list of c colours *)

\* a flat list of c distinct base colours
BaseColours(c) == [k \in 1..(3 * c) |-> (k - 1) \div 3]

InitPadding ==
    /\ op = "padding"
    /\ pc = "selected"
    /\ \E c \in 1..PaletteSize : pal = ListPal(BaseColours(c))
    /\ palette_im = <<>>
    /\ image = NoImage /\ palette = "bw" /\ dither = FALSE
    /\ quantized_im = NoImage /\ rgb = <<>>
    /\ im_black = NoImage /\ im_colour = NoImage
    /\ image1 = NoImage /\ image2 = NoImage
    /\ base = NoImage /\ overlay = NoImage
    /\ holder = NoImage /\ loaded = NoImage /\ config = NoConfig
    /\ raised = "none" /\ ret = NoReturn

SpecPadding == InitPadding /\ [][BuildPalette]_vars

---------------------------------------------------------------------------
(* The Inkyimage holder: the library calls its methods make *)

\* pixels of the rasters a file opens as: mode "RGBA" (fully transparent
\* black, opaque red), mode "LA" (gray with alpha: fully transparent black,
\* opaque black), mode "RGB" (red), mode "CMYK" (black ink)
HolderPixels(mode) ==
    CASE mode = "RGBA" -> {<<0, 0, 0, 0>>, <<255, 0, 0, 255>>}
      [] mode = "LA" -> {<<0, 0>>, <<0, 255>>}
      [] mode = "RGB" -> {Red}
      [] mode = "CMYK" -> {<<0, 0, 0, 255>>}

HolderModes == {"RGBA", "LA", "RGB", "CMYK"}

\* the rasters Image.open can return in the model
HolderImages == UNION {UNION {{[mode |-> m, size |-> s, px |-> f] :
                                  f \in [Pos(s[1], s[2]) -> HolderPixels(m)]} : s \in MergeSizes} :
                          m \in HolderModes}

\* len(image.getbands())
Bands(im) ==
    CASE im.mode = "RGBA" -> 4
      [] im.mode = "CMYK" -> 4
      [] im.mode = "RGB" -> 3
      [] im.mode = "LA" -> 2

\* the truth value of self.image: None is false, a raster is true
ImageLoaded(im) == im # NoImage

\* the outcome of a method: the raster the holder is left with and the
\* exception raised, "none" if none
Outcome(im, exc) == [image |-> im, raised |-> exc]

\* image.rotate(90, expand=True): a quarter turn counter-clockwise, the right
\* column becomes the top row
Rotate90(im) ==
    [mode |-> im.mode, size |-> <<Height(im), Width(im)>>,
     px |-> [q \in Pos(Height(im), Width(im)) |-> im.px[<<Width(im) + 1 - q[2], q[1]>>]]]

\* image.rotate(angle, expand=True) for a multiple of 90
Rotate(im, angle) ==
    CASE angle % 360 = 0 -> im
      [] angle % 360 = 90 -> Rotate90(im)
      [] angle % 360 = 180 -> Rotate90(Rotate90(im))
      [] angle % 360 = 270 -> Rotate90(Rotate90(Rotate90(im)))

\* the library's division by 255 of a 16-bit product
ShiftForDiv255(a) == ((a \div 256) + a) \div 256

\* Image.alpha_composite(bg, image) for one pixel: src over dst
AlphaComposite(dst, src) ==
    IF src[4] = 0 THEN dst
    ELSE LET blend == dst[4] * (255 - src[4])
             outa255 == src[4] * 255 + blend
             coef1 == (src[4] * 255 * 255 * 128) \div outa255
             coef2 == 255 * 128 - coef1
             Channel(k) == ShiftForDiv255(src[k] * coef1 + dst[k] * coef2 + 128 * 128) \div 128
         IN <<Channel(1), Channel(2), Channel(3), ShiftForDiv255(outa255 + 128)>>

\* lines 140-144: the raster composited over a white background of its size
\* and pasted back over the whole raster
Flattened(im) ==
    [im EXCEPT !.px = [q \in DOMAIN im.px |-> AlphaComposite(<<255, 255, 255, 255>>, im.px[q])]]

Uniform(im) == \A q1, q2 \in DOMAIN im.px : im.px[q1] = im.px[q2]

\* the resamplings the model computes: to a size within the raster bound, and
\* one the library refuses (a dimension below 1), to the raster's own size (a
\* copy), or of a raster of one colour whose pixels premultiplication leaves
\* alone (the result has that colour)
Resamplable(im, size) ==
    /\ size[1] * size[2] <= MaxPixels
    /\ \/ size[1] < 1 \/ size[2] < 1
       \/ size = im.size
       \/ Uniform(im)

\* image.resize(size, Image.LANCZOS)
Resample(im, size) ==
    IF size[1] < 1 \/ size[2] < 1 THEN Outcome(im, "ValueError")
    ELSE IF size = im.size THEN Outcome(im, "none")
    ELSE Outcome([mode |-> im.mode, size |-> size,
                  px |-> [q \in Pos(size[1], size[2]) |-> im.px[<<1, 1>>]]], "none")

\* int(float(a) * (n / float(b))) for the small positive integers of the model
Scale(a, n, b) == (a * n) \div b

---------------------------------------------------------------------------
(* The Inkyimage holder: its methods, each as the outcome for self.image *)

\* lines 68-72: clear()
Clear(im) == IF ImageLoaded(im) THEN Outcome(NoImage, "none") ELSE Outcome(im, "none")

\* lines 82-97: flip(angle)
Flip(im, angle) ==
    IF ~ImageLoaded(im) THEN Outcome(im, "none")
    ELSE IF angle % 90 # 0 THEN Outcome(im, "none")
    ELSE Outcome(Rotate(im, angle), "none")

\* lines 99-128: autoflip(layout)
Autoflip(im, layout) ==
    IF ~ImageLoaded(im) THEN Outcome(im, "none")
    ELSE IF layout = "horizontal"
         THEN Outcome(IF Height(im) > Width(im) THEN Rotate90(im) ELSE im, "none")
    ELSE IF layout = "vertical"
         THEN Outcome(IF Width(im) > Height(im) THEN Rotate90(im) ELSE im, "none")
    ELSE Outcome(im, "none")

\* lines 130-145: remove_alpha(); only a raster of four bands is composited,
\* and alpha_composite refuses one whose mode is not "RGBA"
RemoveAlpha(im) ==
    IF ~ImageLoaded(im) THEN Outcome(im, "none")
    ELSE IF Bands(im) # 4 THEN Outcome(im, "none")
    ELSE IF im.mode # "RGBA" THEN Outcome(im, "ValueError")
    ELSE Outcome(Flattened(im), "none")

\* lines 147-171: resize(width, height); 0 stands for an argument left out
Resize(im, width, height) ==
    IF ~ImageLoaded(im) THEN Outcome(im, "none")
    ELSE IF width = 0 /\ height = 0 THEN Outcome(im, "none")
    ELSE LET first == IF width # 0
                      THEN Resample(im, <<width, Scale(Height(im), width, Width(im))>>)
                      ELSE Outcome(im, "none")
         IN IF first.raised # "none" \/ height = 0 THEN first
            ELSE Resample(first.image,
                          <<Scale(Width(first.image), height, Height(first.image)), height>>)

\* the calls of resize whose resamplings the model computes
ResizeModelled(im, width, height) ==
    IF ~ImageLoaded(im) THEN TRUE
    ELSE LET ok1 == width = 0 \/ Resamplable(im, <<width, Scale(Height(im), width, Width(im))>>)
             first == IF width # 0
                      THEN Resample(im, <<width, Scale(Height(im), width, Width(im))>>)
                      ELSE Outcome(im, "none")
         IN IF ~ok1 THEN FALSE
            ELSE IF first.raised # "none" \/ height = 0 THEN TRUE
            ELSE Resamplable(first.image,
                             <<Scale(Width(first.image), height, Height(first.image)), height>>)

\* the arguments the methods are called with
Angles == {0, 45, 90, 180, 270}
Layouts == {"horizontal", "vertical", "diagonal"}
Lengths == 0..MaxPixels

\* lines 23-27: Inkyimage(image), by default with no image
InitHolder ==
    /\ op = "holder"
    /\ pc = "__init__"
    /\ holder \in {NoImage} \cup HolderImages
    /\ loaded = NoImage /\ config = NoConfig
    /\ pal = NonePal /\ palette_im = <<>>
    /\ image = NoImage /\ palette = "bw" /\ dither = FALSE
    /\ quantized_im = NoImage /\ rgb = <<>>
    /\ im_black = NoImage /\ im_colour = NoImage
    /\ image1 = NoImage /\ image2 = NoImage
    /\ base = NoImage /\ overlay = NoImage
    /\ raised = "none" /\ ret = NoReturn

\* a method call that ends with the outcome r
HolderCall(method, r) ==
    /\ pc' = method
    /\ holder' = r.image
    /\ raised' = r.raised
    /\ UNCHANGED <<op, loaded, config, base, overlay, image, palette, dither, pal, palette_im,
                   quantized_im, rgb, im_black, im_colour, image1, image2, ret>>

\* lines 32-66: load(path); the file opens as a raster, which becomes
\* self.image, or it cannot be opened and the call raises Exception
Load(im) ==
    {Outcome(file, "none") : file \in HolderImages} \cup {Outcome(im, "Exception")}

load ==
    /\ op = "holder"
    /\ \E r \in Load(holder) : HolderCall("load", r)

\* mutant: clear keeps the raster
clear_Keep ==
    /\ op = "holder"
    /\ HolderCall("clear", Outcome(holder, "none"))

clear ==
    /\ op = "holder"
    /\ HolderCall("clear", Clear(holder))

flip ==
    /\ op = "holder"
    /\ \E angle \in Angles : HolderCall("flip", Flip(holder, angle))

autoflip ==
    /\ op = "holder"
    /\ \E layout \in Layouts : HolderCall("autoflip", Autoflip(holder, layout))

remove_alpha ==
    /\ op = "holder"
    /\ HolderCall("remove_alpha", RemoveAlpha(holder))

resize ==
    /\ op = "holder"
    /\ \E width, height \in Lengths :
          /\ ResizeModelled(holder, width, height)
          /\ HolderCall("resize", Resize(holder, width, height))

NextHolder ==
    \/ load
    \/ clear
    \/ flip
    \/ autoflip
    \/ remove_alpha
    \/ resize

SpecHolder == InitHolder /\ [][NextHolder]_vars

HolderMethod(m) == op = "holder" /\ pc' = m

\* C18: while the holder has no image, flip, autoflip, remove_alpha, resize
\* and clear raise no error and leave it without an image; an image becomes
\* present only by load; clear always leaves the holder without an image.
C18_NoImage ==
    [][/\ (holder = NoImage /\ \E m \in {"flip", "autoflip", "remove_alpha", "resize", "clear"} :
                                   HolderMethod(m))
           => (holder' = NoImage /\ raised' = "none")
       /\ (op = "holder" /\ holder = NoImage /\ holder' # NoImage) => pc' = "load"
       /\ HolderMethod("clear") => holder' = NoImage]_vars

\* C18 witness: autoflip was called on a holder without an image; it raised
\* nothing and the holder is still without an image
C18_Witness ==
    /\ op = "holder" /\ pc = "autoflip"
    /\ holder = NoImage
    /\ raised = "none"

---------------------------------------------------------------------------
(* generate_image of inkycal/modules/inkycal_image.py *)

\* im.image.convert("RGB"): the alpha band is dropped, a gray is repeated
ConvertRGB(im) ==
    [mode |-> "RGB", size |-> im.size,
     px |-> [q \in DOMAIN im.px |->
                CASE im.mode = "RGBA" -> <<im.px[q][1], im.px[q][2], im.px[q][3]>>
                  [] im.mode = "LA" -> <<im.px[q][1], im.px[q][1], im.px[q][1]>>
                  [] im.mode = "RGB" -> im.px[q]]]

\* the options of the module: palette bw, bwr or bwy; orientation vertical or
\* horizontal
ConfigPalettes == {"bw", "bwr", "bwy"}
Orientations == {"vertical", "horizontal"}

Configs == [set : {TRUE}, autoflip : BOOLEAN, orientation : Orientations,
            width : Lengths, height : Lengths]

\* lines 75-76: the raster after the optional autoflip
AfterAutoflip(im, cfg) == IF cfg.autoflip THEN Autoflip(im, cfg.orientation).image ELSE im

\* the files whose resize the model computes under the configuration cfg
FileModelled(file, cfg) ==
    IF RemoveAlpha(file).raised # "none" THEN TRUE
    ELSE ResizeModelled(AfterAutoflip(RemoveAlpha(file).image, cfg), cfg.width, cfg.height)

\* lines 58-66: the sizes are computed and im = Images() holds no image
InitGenerate ==
    /\ op = "generate_image"
    /\ pc = "start"
    /\ config \in Configs
    /\ palette \in ConfigPalettes
    /\ dither \in BOOLEAN
    /\ holder = NoImage /\ loaded = NoImage
    /\ pal = NonePal /\ palette_im = <<>>
    /\ image = NoImage
    /\ quantized_im = NoImage /\ rgb = <<>>
    /\ im_black = NoImage /\ im_colour = NoImage
    /\ image1 = NoImage /\ image2 = NoImage
    /\ base = NoImage /\ overlay = NoImage
    /\ raised = "none" /\ ret = NoReturn

\* a step of generate_image that calls a method of im: the method's outcome
\* r, and the statement that follows when nothing was raised
GenerateStep(r, next) ==
    /\ holder' = r.image
    /\ raised' = r.raised
    /\ pc' = IF r.raised = "none" THEN next ELSE "raised"
    /\ UNCHANGED <<op, config, base, overlay, image, palette, dither, pal, palette_im,
                   quantized_im, rgb, im_black, im_colour, image1, image2, ret>>

\* line 69: im.load(self.path)
GenerateLoad ==
    /\ op = "generate_image" /\ pc = "start"
    /\ \E r \in Load(holder) :
          /\ r.raised = "none" => FileModelled(r.image, config)
          /\ loaded' = IF r.raised = "none" THEN r.image ELSE loaded
          /\ GenerateStep(r, "remove_alpha")

\* line 72: im.remove_alpha()
GenerateRemoveAlpha ==
    /\ op = "generate_image" /\ pc = "remove_alpha"
    /\ GenerateStep(RemoveAlpha(holder), "autoflip")
    /\ UNCHANGED loaded

\* lines 75-76: if self.autoflip: im.autoflip(self.orientation)
GenerateAutoflip ==
    /\ op = "generate_image" /\ pc = "autoflip"
    /\ GenerateStep(Outcome(AfterAutoflip(holder, config), "none"), "resize")
    /\ UNCHANGED loaded

\* line 79: im.resize(width=im_width, height=im_height)
GenerateResize ==
    /\ op = "generate_image" /\ pc = "resize"
    /\ GenerateStep(Resize(holder, config.width, config.height), "call")
    /\ UNCHANGED loaded

\* line 82: image_to_palette(image=im.image.convert("RGB"),
\* palette=self.palette, dither=self.dither) is entered
GenerateCall ==
    /\ op = "generate_image" /\ pc = "call"
    /\ image' = ConvertRGB(holder)
    /\ op' = "image_to_palette"
    /\ pc' = "start"
    /\ UNCHANGED <<holder, loaded, config, base, overlay, palette, dither, pal, palette_im,
                   quantized_im, rgb, im_black, im_colour, image1, image2, raised, ret>>

\* lines 82-85: the call has returned the two bands; im.clear()
GenerateClear ==
    /\ op = "image_to_palette" /\ pc = "done" /\ config.set
    /\ holder' = Clear(holder).image
    /\ op' = "generate_image"
    /\ pc' = "return"
    /\ UNCHANGED <<loaded, config, base, overlay, image, palette, dither, pal, palette_im,
                   quantized_im, rgb, im_black, im_colour, image1, image2, raised, ret>>

\* line 88: return im_black, im_colour
GenerateReturn ==
    /\ op = "generate_image" /\ pc = "return"
    /\ pc' = "done"
    /\ UNCHANGED <<op, holder, loaded, config, base, overlay, image, palette, dither, pal,
                   palette_im, quantized_im, rgb, im_black, im_colour, image1, image2,
                   raised, ret>>

\* generate_image and the statements of image_to_palette it runs through
NextGenerate ==
    \/ GenerateLoad
    \/ GenerateRemoveAlpha
    \/ GenerateAutoflip
    \/ GenerateResize
    \/ GenerateCall
    \/ SelectPalette
    \/ BuildPalette
    \/ Quantize
    \/ FindAccent
    \/ BlackBand
    \/ ColourBand
    \/ BlackWhite
    \/ ReturnBands
    \/ GenerateClear
    \/ GenerateReturn

SpecGenerate == InitGenerate /\ [][NextGenerate]_vars

\* the raster carries transparency: it has an alpha band with a pixel that
\* is not opaque
Transparent(im) ==
    /\ im.mode \in {"RGBA", "LA"}
    /\ \E q \in DOMAIN im.px : im.px[q][Bands(im)] < 255

\* the raster composited over a white background, in either mode with alpha
OnWhite(im) ==
    IF im.mode = "RGBA" THEN Flattened(im)
    ELSE [im EXCEPT !.px = [q \in DOMAIN im.px |->
             LET c == AlphaComposite(<<255, 255, 255, 255>>,
                                     <<im.px[q][1], im.px[q][1], im.px[q][1], im.px[q][2]>>)
             IN <<c[1], c[4]>>]]

\* the raster image_to_palette receives when the file is composited over
\* white before the autoflip and the resize
FlattenedArgument ==
    ConvertRGB(Resize(AfterAutoflip(OnWhite(loaded), config), config.width, config.height).image)

\* the call of image_to_palette by generate_image has just been entered
PaletteEntered == op = "image_to_palette" /\ pc = "start" /\ config.set

\* C16: in generate_image, every loaded raster that carries transparency,
\* whatever its mode, reaches image_to_palette composited over white.
C16_Flattened ==
    (PaletteEntered /\ Transparent(loaded)) => image = FlattenedArgument

====
